---- MODULE Spec2Model ----
(***************************************************************************)
(* Document chunking engine of the Kyc repository (src/lib/awsTitan.ts,    *)
(* lines 228-402: chunkText, getOverlapText, chunkByPages,                 *)
(* mergeSmallChunks).                                                      *)
(*                                                                         *)
(* A JavaScript string is modelled as a sequence of one-character strings, *)
(* so that length, trim, split, slice and lastIndexOf are computed the way *)
(* the runtime computes them.  Filenames and chunk ids, which the code     *)
(* only concatenates and compares, are TLA+ strings.                       *)
(***************************************************************************)
EXTENDS Integers, Sequences, FiniteSets, TLC

VARIABLES call, result, pc, loop, effects, heap

vars == <<call, result, pc, loop, effects, heap>>

---------------------------------------------------------------------------
(* Bounds of the input space.                                              *)

\* longest text over the full alphabet handed to chunkText
MaxLen == 4
\* longest text over letters and full stops only handed to chunkText
MaxLongLen == 7
\* largest chunkSize option
MaxChunkSize == 4
\* largest chunkOverlap option
MaxOverlap == 2
\* largest minChunkSize option
MaxMinSize == 3
\* largest number of pages handed to chunkByPages
MaxPages == 2
\* most characters in all pages of one chunkByPages call together
MaxPagesLen == 3
\* largest number of chunks handed to mergeSmallChunks
MaxChunks == 3
\* largest minSize handed to mergeSmallChunks, the default apart
MaxMergeMin == 5

\* characters of the input texts: a letter, whitespace, the three terminators
Alphabet == {"a", " ", ".", "!", "?"}

\* characters of the longer input texts
LongAlphabet == {"a", "."}

\* characters of the page texts
PageAlphabet == {"a", " ", "."}

Filenames == {"f.txt", "g.pdf"}

\* contents of the chunks handed to mergeSmallChunks
MergeContents == {<<"a">>, <<"b", "b">>, <<"c", "c", "c">>}

\* totalChunks values of the chunks handed to mergeSmallChunks
MergeTotals == {3, 7}

---------------------------------------------------------------------------
(* String primitives of the runtime.                                       *)

Max(a, b) == IF a >= b THEN a ELSE b
Min(a, b) == IF a <= b THEN a ELSE b

\* whitespace as String.prototype.trim sees it
IsSpace(c) == c = " "

\* the character class [.!?] of the split pattern
IsTerminator(c) == c \in {".", "!", "?"}

RECURSIVE TrimStart(_)
TrimStart(s) ==
  IF s = <<>> THEN <<>>
  ELSE IF IsSpace(Head(s)) THEN TrimStart(Tail(s)) ELSE s

RECURSIVE TrimEnd(_)
TrimEnd(s) ==
  IF s = <<>> THEN <<>>
  ELSE IF IsSpace(s[Len(s)]) THEN TrimEnd(SubSeq(s, 1, Len(s) - 1)) ELSE s

\* String.prototype.trim
Trim(s) == TrimEnd(TrimStart(s))

\* String.prototype.slice(start): a negative start counts from the end
Slice(s, start) ==
  LET from == IF start < 0 THEN Max(Len(s) + start, 0) ELSE Min(start, Len(s))
  IN  SubSeq(s, from + 1, Len(s))

\* String.prototype.lastIndexOf(c): zero-based, -1 when c does not occur
LastIndexOf(s, c) ==
  LET hits == {i \in 1..Len(s) : s[i] = c}
  IN  IF hits = {} THEN -1
      ELSE (CHOOSE i \in hits : \A j \in hits : j <= i) - 1

\* the longest prefix of s without a terminator
RECURSIVE Segment(_)
Segment(s) ==
  IF s = <<>> \/ IsTerminator(Head(s)) THEN <<>>
  ELSE <<Head(s)>> \o Segment(Tail(s))

\* s without its leading run of terminators
RECURSIVE SkipTerminators(_)
SkipTerminators(s) ==
  IF s # <<>> /\ IsTerminator(Head(s)) THEN SkipTerminators(Tail(s)) ELSE s

\* text.split(/[.!?]+/): the pieces between runs of terminators, the empty
\* pieces before a leading run and after a trailing run included
RECURSIVE Split(_)
Split(text) ==
  LET seg  == Segment(text)
      rest == SubSeq(text, Len(seg) + 1, Len(text))
  IN  IF rest = <<>> THEN <<seg>>
      ELSE <<seg>> \o Split(SkipTerminators(rest))

\* mutant of NonBlank: the filter tests s.length instead of s.trim().length
NonBlank_NoTrim(segs) == SelectSeq(segs, LAMBDA s : Len(s) > 0)

\* Array.prototype.filter(s => s.trim().length > 0)
NonBlank(segs) == SelectSeq(segs, LAMBDA s : Len(Trim(s)) > 0)

---------------------------------------------------------------------------
(* chunkText and getOverlapText.                                           *)

DEFAULT_CHUNKING_OPTIONS ==
  [chunkSize |-> 1000, chunkOverlap |-> 200, minChunkSize |-> 100]

\* { ...DEFAULT_CHUNKING_OPTIONS, ...options } for a Partial<ChunkingOptions>
WithDefaults(options) ==
  [k \in DOMAIN DEFAULT_CHUNKING_OPTIONS |->
     IF k \in DOMAIN options THEN options[k] ELSE DEFAULT_CHUNKING_OPTIONS[k]]

\* the sentence list of the loop: the non-blank pieces of the split
Sentences(text) == NonBlank(Split(text))

\* sentence.trim() + '.'
SentenceText(sentence) == Trim(sentence) \o <<".">>

\* mutant of getOverlapText: the whole text is carried over, whatever its size
getOverlapText_Whole(text, overlapSize) == text

\* mutant of getOverlapText: a '.' at position 0 of the suffix counts too
getOverlapText_FromZero(text, overlapSize) ==
  IF Len(text) <= overlapSize THEN text
  ELSE LET endText           == Slice(text, -overlapSize)
           lastSentenceStart == LastIndexOf(endText, ".")
       IN  IF lastSentenceStart >= 0
           THEN Trim(Slice(endText, lastSentenceStart + 1))
           ELSE endText

getOverlapText(text, overlapSize) ==
  IF Len(text) <= overlapSize THEN text
  ELSE LET endText           == Slice(text, -overlapSize)
           lastSentenceStart == LastIndexOf(endText, ".")
       IN  IF lastSentenceStart > 0
           THEN Trim(Slice(endText, lastSentenceStart + 1))
           ELSE endText

\* mutant of ChunkId: the id counts chunks from one
ChunkId_OneBased(filename, chunkIndex) ==
  filename \o "-chunk-" \o ToString(chunkIndex + 1)

\* `${filename}-chunk-${chunkIndex}`
ChunkId(filename, chunkIndex) == filename \o "-chunk-" \o ToString(chunkIndex)

\* mutant of NewChunk: the content is pushed without trim()
NewChunk_Untrimmed(filename, currentChunk, chunkIndex) ==
  [id       |-> ChunkId(filename, chunkIndex),
   content  |-> currentChunk,
   metadata |-> [filename    |-> filename,
                 chunkIndex  |-> chunkIndex,
                 totalChunks |-> 0]]

\* the object literal pushed by chunkText, totalChunks still 0
NewChunk(filename, currentChunk, chunkIndex) ==
  [id       |-> ChunkId(filename, chunkIndex),
   content  |-> Trim(currentChunk),
   metadata |-> [filename    |-> filename,
                 chunkIndex  |-> chunkIndex,
                 totalChunks |-> 0]]

\* mutant of MustFlush: || in place of &&
MustFlush_Or(currentChunk, sentenceText, o) ==
  \/ Len(currentChunk) + Len(sentenceText) > o.chunkSize
  \/ Len(currentChunk) >= o.minChunkSize

\* mutant of MustFlush: the size test is inverted, < in place of >
MustFlush_Less(currentChunk, sentenceText, o) ==
  /\ Len(currentChunk) + Len(sentenceText) < o.chunkSize
  /\ Len(currentChunk) >= o.minChunkSize

\* the test of the loop body: the sentence would exceed the chunk size and
\* the accumulator has reached the minimum size
MustFlush(currentChunk, sentenceText, o) ==
  /\ Len(currentChunk) + Len(sentenceText) > o.chunkSize
  /\ Len(currentChunk) >= o.minChunkSize

\* mutant of Reseed: the sentence that caused the flush is dropped
Reseed_OverlapOnly(currentChunk, sentenceText, o) ==
  getOverlapText(currentChunk, o.chunkOverlap)

\* the accumulator after a flush: overlap text, a space, the sentence
Reseed(currentChunk, sentenceText, o) ==
  getOverlapText(currentChunk, o.chunkOverlap) \o <<" ">> \o sentenceText

\* the accumulator after an append: currentChunk += (currentChunk ? ' ' : '') + s
AppendSentence(currentChunk, sentenceText) ==
  currentChunk \o (IF currentChunk # <<>> THEN <<" ">> ELSE <<>>) \o sentenceText

\* the loop state before the first sentence
LoopInit == [currentChunk |-> <<>>, chunkIndex |-> 0, chunks |-> <<>>]

\* one iteration of `for (const sentence of sentences)`
SentenceStep(st, sentence, filename, o) ==
  LET sentenceText == SentenceText(sentence)
  IN  IF MustFlush(st.currentChunk, sentenceText, o)
      THEN [currentChunk |-> Reseed(st.currentChunk, sentenceText, o),
            chunkIndex   |-> st.chunkIndex + 1,
            chunks       |-> st.chunks \o
                             <<NewChunk(filename, st.currentChunk, st.chunkIndex)>>]
      ELSE [st EXCEPT !.currentChunk = AppendSentence(st.currentChunk, sentenceText)]

\* the loop state after the first n sentences
RECURSIVE LoopAfter(_, _, _, _)
LoopAfter(sentences, n, filename, o) ==
  IF n = 0 THEN LoopInit
  ELSE SentenceStep(LoopAfter(sentences, n - 1, filename, o),
                    sentences[n], filename, o)

\* mutant of PushLast: the accumulator left after the loop is not pushed
PushLast_Never(st, filename) == st.chunks

\* "Add the last chunk if it has content"
PushLast(st, filename) ==
  IF Len(Trim(st.currentChunk)) > 0
  THEN st.chunks \o <<NewChunk(filename, st.currentChunk, st.chunkIndex)>>
  ELSE st.chunks

\* mutant of UpdateTotals: the final pass is missing, totalChunks stays 0
UpdateTotals_Skipped(chunks) == chunks

\* chunks.forEach(chunk => chunk.metadata.totalChunks = chunks.length)
UpdateTotals(chunks) ==
  [k \in 1..Len(chunks) |->
     [chunks[k] EXCEPT !.metadata.totalChunks = Len(chunks)]]

chunkText(text, filename, options) ==
  LET o         == WithDefaults(options)
      sentences == Sentences(text)
  IN  IF text = <<>> \/ Len(Trim(text)) = 0 THEN <<>>
      ELSE IF Len(sentences) = 0 THEN <<>>
      ELSE UpdateTotals(
             PushLast(LoopAfter(sentences, Len(sentences), filename, o), filename))

---------------------------------------------------------------------------
(* chunkByPages.                                                           *)

\* mutant of PageChunkId: the id chunkText gave is kept, the page is left out
PageChunkId_NoPage(filename, pageIndex, chunkIndex) ==
  ChunkId(filename, chunkIndex)

\* `${filename}-page${pageIndex + 1}-chunk-${chunkIndex}`
PageChunkId(filename, pageIndex, chunkIndex) ==
  filename \o "-page" \o ToString(pageIndex + 1) \o "-chunk-" \o ToString(chunkIndex)

\* mutant of WithPageInfo: metadata.page is the zero-based pageIndex
WithPageInfo_ZeroBasedPage(chunk, filename, pageIndex, chunkIndex) ==
  [id       |-> PageChunkId(filename, pageIndex, chunkIndex),
   content  |-> chunk.content,
   metadata |-> [filename    |-> chunk.metadata.filename,
                 chunkIndex  |-> chunk.metadata.chunkIndex,
                 totalChunks |-> chunk.metadata.totalChunks,
                 page        |-> pageIndex]]

\* { ...chunk, id: ..., metadata: { ...chunk.metadata, page: pageIndex + 1 } }
\* for the chunk at zero-based position chunkIndex of the page's chunks
WithPageInfo(chunk, filename, pageIndex, chunkIndex) ==
  [id       |-> PageChunkId(filename, pageIndex, chunkIndex),
   content  |-> chunk.content,
   metadata |-> [filename    |-> chunk.metadata.filename,
                 chunkIndex  |-> chunk.metadata.chunkIndex,
                 totalChunks |-> chunk.metadata.totalChunks,
                 page        |-> pageIndex + 1]]

\* the callback of pages.forEach for the page at zero-based pageIndex
PageChunks(pageText, pageIndex, filename, options) ==
  LET pageChunks == chunkText(pageText, filename, options)
  IN  [k \in 1..Len(pageChunks) |->
         WithPageInfo(pageChunks[k], filename, pageIndex, k - 1)]

\* allChunks after the first n pages
RECURSIVE AllChunksAfter(_, _, _, _)
AllChunksAfter(pages, n, filename, options) ==
  IF n = 0 THEN <<>>
  ELSE AllChunksAfter(pages, n - 1, filename, options) \o
       PageChunks(pages[n], n - 1, filename, options)

\* mutant of chunkByPages: totalChunks is recomputed over the chunks of all
\* pages together
chunkByPages_TotalsOverAll(pages, filename, options) ==
  UpdateTotals(AllChunksAfter(pages, Len(pages), filename, options))

chunkByPages(pages, filename, options) ==
  AllChunksAfter(pages, Len(pages), filename, options)

---------------------------------------------------------------------------
(* mergeSmallChunks.                                                       *)

\* the default of the minSize parameter
DEFAULT_MIN_SIZE == 100

\* mutant of MergeCond: the length test looks at the next chunk
MergeCond_NextShort(chunks, i, currentChunk, minSize) ==
  /\ i + 1 < Len(chunks)
  /\ Len(chunks[i + 2].content) < minSize
  /\ chunks[i + 2].metadata.filename = currentChunk.metadata.filename

\* mutant of Absorb: the next chunk's content takes the place of the merged
\* content
Absorb_Replaces(currentChunk, nextChunk) ==
  [currentChunk EXCEPT
     !.content = nextChunk.content,
     !.metadata.totalChunks = currentChunk.metadata.totalChunks - 1]

\* mutant of MergeCond: the filename comparison is missing
MergeCond_AnyFile(chunks, i, currentChunk, minSize) ==
  /\ i + 1 < Len(chunks)
  /\ Len(currentChunk.content) < minSize

\* mutant of MergeCond: <= in place of < in the size test
MergeCond_AtMost(chunks, i, currentChunk, minSize) ==
  /\ i + 1 < Len(chunks)
  /\ Len(currentChunk.content) <= minSize
  /\ chunks[i + 2].metadata.filename = currentChunk.metadata.filename

\* the test of the inner while loop, i the zero-based index of the code
MergeCond(chunks, i, currentChunk, minSize) ==
  /\ i + 1 < Len(chunks)
  /\ Len(currentChunk.content) < minSize
  /\ chunks[i + 2].metadata.filename = currentChunk.metadata.filename

\* mutant of Absorb: the spread takes nextChunk, so its id and metadata win
Absorb_NextId(currentChunk, nextChunk) ==
  [nextChunk EXCEPT
     !.content = currentChunk.content \o <<" ">> \o nextChunk.content,
     !.metadata.totalChunks = nextChunk.metadata.totalChunks - 1]

\* mutant of Absorb: totalChunks is not decremented
Absorb_SameTotal(currentChunk, nextChunk) ==
  [currentChunk EXCEPT
     !.content = currentChunk.content \o <<" ">> \o nextChunk.content]

\* the object the inner loop assigns to currentChunk:
\* { ...currentChunk, content: ..., metadata: { ...metadata, totalChunks - 1 } }
Absorb(currentChunk, nextChunk) ==
  [currentChunk EXCEPT
     !.content = currentChunk.content \o <<" ">> \o nextChunk.content,
     !.metadata.totalChunks = currentChunk.metadata.totalChunks - 1]

\* mutant of InnerLoop: `if` in place of `while`, at most one chunk absorbed
InnerLoop_Once(chunks, i, currentChunk, minSize) ==
  IF MergeCond(chunks, i, currentChunk, minSize)
  THEN [i |-> i + 1, currentChunk |-> Absorb(currentChunk, chunks[i + 2])]
  ELSE [i |-> i, currentChunk |-> currentChunk]

\* i and currentChunk when the inner while loop ends
RECURSIVE InnerLoop(_, _, _, _)
InnerLoop(chunks, i, currentChunk, minSize) ==
  IF MergeCond(chunks, i, currentChunk, minSize)
  THEN InnerLoop(chunks, i + 1, Absorb(currentChunk, chunks[i + 2]), minSize)
  ELSE [i |-> i, currentChunk |-> currentChunk]

\* mergedChunks when the outer while loop ends, entered with index i
RECURSIVE OuterLoop(_, _, _, _)
OuterLoop(chunks, i, mergedChunks, minSize) ==
  IF i < Len(chunks)
  THEN LET inner == InnerLoop(chunks, i, chunks[i + 1], minSize)
       IN  OuterLoop(chunks, inner.i + 1,
                     mergedChunks \o <<inner.currentChunk>>, minSize)
  ELSE mergedChunks

mergeSmallChunks(chunks, minSize) == OuterLoop(chunks, 0, <<>>, minSize)

---------------------------------------------------------------------------
(* The calls the model makes.                                              *)

\* all strings over Alphabet of length at most n
SeqsUpTo(S, n) == UNION {[1..k -> S] : k \in 0..n}

Texts == SeqsUpTo(Alphabet, MaxLen) \cup SeqsUpTo(LongAlphabet, MaxLongLen)

\* the sequences of exactly k pages with at most n characters in all
RECURSIVE PagesOf(_, _)
PagesOf(k, n) ==
  IF k = 0 THEN {<<>>}
  ELSE UNION {{<<t>> \o r : r \in PagesOf(k - 1, n - Len(t))} :
              t \in SeqsUpTo(PageAlphabet, n)}

PageLists == UNION {PagesOf(k, MaxPagesLen) : k \in 0..MaxPages}

\* the options argument: every field given, or none (the defaults apply)
OptionValues ==
  [chunkSize    : 0..MaxChunkSize,
   chunkOverlap : 0..MaxOverlap,
   minChunkSize : 0..MaxMinSize]
  \cup {[x \in {} |-> 0]}

ChunkTextCalls ==
  [op : {"chunkText"}, text : Texts, filename : Filenames, options : OptionValues]

ChunkByPagesCalls ==
  [op : {"chunkByPages"}, pages : PageLists,
   filename : Filenames, options : OptionValues]

\* the chunk handed to mergeSmallChunks at position k (from one): chunks of
\* g.pdf come from chunkByPages and carry a page, chunks of f.txt do not
InputChunk(k, content, filename, totalChunks) ==
  IF filename = "g.pdf"
  THEN [id       |-> "c" \o ToString(k),
        content  |-> content,
        metadata |-> [filename    |-> filename,
                      chunkIndex  |-> k - 1,
                      totalChunks |-> totalChunks,
                      page        |-> k]]
  ELSE [id       |-> "c" \o ToString(k),
        content  |-> content,
        metadata |-> [filename    |-> filename,
                      chunkIndex  |-> k - 1,
                      totalChunks |-> totalChunks]]

ChunkLists ==
  UNION {{[k \in 1..n |-> InputChunk(k, d[k][1], d[k][2], d[k][3])] :
            d \in [1..n -> MergeContents \X Filenames \X MergeTotals]} :
         n \in 0..MaxChunks}

MergeCalls ==
  [op : {"mergeSmallChunks"}, chunks : ChunkLists,
   minSize : 0..MaxMergeMin \cup {DEFAULT_MIN_SIZE}]

---------------------------------------------------------------------------
(* The state machine: a caller picks the arguments of one call, the call   *)
(* runs to completion and leaves its return value in result.               *)

\* no loop is running
NoLoop == [at |-> "none"]

\* no object of the call is tracked by reference
NoHeap == <<>>

\* what a request has done outside its own variables: whether it made the
\* uploads directory, the files it saved there, the number of chunking runs,
\* the ids of the chunks it sent to Discovery and the other Discovery
\* operations it called
NoEffects ==
  [dir |-> FALSE, files |-> <<>>, chunked |-> 0, added |-> <<>>, ops |-> <<>>]

Init ==
  /\ call \in ChunkTextCalls \cup ChunkByPagesCalls
  /\ result = <<>>
  /\ pc = "call"
  /\ loop = NoLoop
  /\ effects = NoEffects
  /\ heap = NoHeap

CallChunkText ==
  /\ pc = "call"
  /\ call.op = "chunkText"
  /\ result' = chunkText(call.text, call.filename, call.options)
  /\ pc' = "done"
  /\ UNCHANGED <<call, loop>>
  /\ UNCHANGED effects
  /\ UNCHANGED heap

CallChunkByPages ==
  /\ pc = "call"
  /\ call.op = "chunkByPages"
  /\ result' = chunkByPages(call.pages, call.filename, call.options)
  /\ pc' = "done"
  /\ UNCHANGED <<call, loop>>
  /\ UNCHANGED effects
  /\ UNCHANGED heap

Next == CallChunkText \/ CallChunkByPages

Spec == Init /\ [][Next]_vars

---------------------------------------------------------------------------
(* mergeSmallChunks called on a chunk list, and called again on what it    *)
(* returned.                                                               *)

InitMerge ==
  /\ call \in MergeCalls
  /\ result = <<>>
  /\ pc = "call"
  /\ loop = NoLoop
  /\ effects = NoEffects
  /\ heap = NoHeap

CallMergeSmallChunks ==
  /\ pc = "call"
  /\ call.op = "mergeSmallChunks"
  /\ result' = mergeSmallChunks(call.chunks, call.minSize)
  /\ pc' = "done"
  /\ UNCHANGED <<call, loop>>
  /\ UNCHANGED effects
  /\ UNCHANGED heap

CallMergeAgain ==
  /\ pc = "done"
  /\ call.op = "mergeSmallChunks"
  /\ result' = mergeSmallChunks(result, call.minSize)
  /\ pc' = "again"
  /\ UNCHANGED <<call, loop>>
  /\ UNCHANGED effects
  /\ UNCHANGED heap

NextMerge == CallMergeSmallChunks \/ CallMergeAgain

SpecMerge == InitMerge /\ [][NextMerge]_vars

---------------------------------------------------------------------------
(* Vocabulary of the properties.                                           *)

\* a chunkText call has returned
ChunkTextDone == pc = "done" /\ call.op = "chunkText"

\* a chunkByPages call has returned
ChunkByPagesDone == pc = "done" /\ call.op = "chunkByPages"

\* the options in force during the call
Opts == WithDefaults(call.options)

PositiveOptions ==
  Opts.chunkSize >= 1 /\ Opts.chunkOverlap >= 1 /\ Opts.minChunkSize >= 1

\* positions of the text's characters that are neither whitespace nor
\* terminators
WordPositions(text) ==
  {i \in 1..Len(text) : text[i] \notin {" ", ".", "!", "?"}}

TerminatorPositions(text) ==
  {i \in 1..Len(text) : text[i] \in {".", "!", "?"}}

SetMin(S) == CHOOSE x \in S : \A y \in S : x <= y
SetMax(S) == CHOOSE x \in S : \A y \in S : x >= y

\* s occurs in content, whole and contiguous, starting at position p
OccursAt(content, s, p) ==
  /\ p >= 1
  /\ p + Len(s) - 1 <= Len(content)
  /\ SubSeq(content, p, p + Len(s) - 1) = s

\* the first position at or after from where s occurs in content, 0 if none
FirstOccurrence(content, s, from) ==
  LET ps == {p \in from..Len(content) : OccursAt(content, s, p)}
  IN  IF ps = {} THEN 0 ELSE SetMin(ps)

\* sentences i.. can be assigned, in order, to chunks k.., the sentences put
\* in chunk k occurring at increasing positions from `from` on
RECURSIVE Covers(_, _, _, _, _)
Covers(sents, i, chunks, k, from) ==
  IF i > Len(sents) THEN TRUE
  ELSE IF k > Len(chunks) THEN FALSE
  ELSE LET p == FirstOccurrence(chunks[k].content, sents[i], from)
       IN  \/ p > 0 /\ Covers(sents, i + 1, chunks, k, p + 1)
           \/ Covers(sents, i, chunks, k + 1, 1)

\* the sentence list of a text: each trimmed segment followed by '.'
SentenceList(text) ==
  LET segs == Sentences(text)
  IN  [i \in 1..Len(segs) |-> SentenceText(segs[i])]

\* the length of the longest sentence of the list, 0 for the empty list
LongestSentence(sents) ==
  IF sents = <<>> THEN 0 ELSE SetMax({Len(sents[i]) : i \in 1..Len(sents)})

IsPrefix(p, s) == Len(p) <= Len(s) /\ SubSeq(s, 1, Len(p)) = p

\* the last m characters of s
Suffix(s, m) == SubSeq(s, Len(s) - m + 1, Len(s))

---------------------------------------------------------------------------
(* Properties of chunkText and chunkByPages.                               *)

\* C1: chunkText returns the empty sequence whenever the text is empty or
\* holds nothing but whitespace and the terminators '.', '!', '?', for
\* every filename and every options value.
C1_BlankTextNoChunks ==
  (ChunkTextDone /\ WordPositions(call.text) = {}) => result = <<>>

\* C1 witness: a text of whitespace and terminators, chunked with a zero
\* minChunkSize, gave no chunk.
C1_Witness ==
  /\ ChunkTextDone
  /\ call.text = <<" ", ".", " ", "?">>
  /\ call.options # <<>> /\ Opts.minChunkSize = 0
  /\ result = <<>>

\* C2 as stated: every non-empty text with at least one terminator gives at
\* least one chunk.
C2_TerminatorGivesChunk ==
  (ChunkTextDone /\ call.text # <<>> /\ TerminatorPositions(call.text) # {})
    => Len(result) >= 1

\* C2 amended: every text with at least one terminator and at least one
\* character that is neither whitespace nor a terminator gives at least one
\* chunk.
C2_SentenceGivesChunk ==
  (ChunkTextDone /\ TerminatorPositions(call.text) # {}
                 /\ WordPositions(call.text) # {})
    => Len(result) >= 1

\* C2 witness: a text with a word and a terminator gave a chunk.
C2_Witness ==
  /\ ChunkTextDone
  /\ call.text = <<"a", "!">>
  /\ Len(result) = 1

\* C3: the sentences of the text can be assigned to the chunks in
\* non-decreasing order so that each sentence occurs whole and contiguous
\* in its chunk and the sentences of one chunk occur there in text order.
C3_SentencesCoveredInOrder ==
  ChunkTextDone => Covers(SentenceList(call.text), 1, result, 1, 1)

\* C3 witness: three sentences went into two chunks.
C3_Witness ==
  /\ ChunkTextDone
  /\ Len(SentenceList(call.text)) = 3
  /\ Len(result) = 2
  /\ Covers(SentenceList(call.text), 1, result, 1, 1)

\* C4: every chunk's metadata.totalChunks is the number of chunks returned.
C4_TotalChunksIsLength ==
  ChunkTextDone =>
    \A k \in 1..Len(result) : result[k].metadata.totalChunks = Len(result)

\* C4 witness: a result of three chunks.
C4_Witness ==
  /\ ChunkTextDone
  /\ Len(result) = 3
  /\ result[1].metadata.totalChunks = 3

\* C5: the chunk at zero-based position k has chunkIndex k, the filename
\* argument and the id filename-chunk-k; the indices are exactly 0..n-1.
C5_IndexFilenameId ==
  ChunkTextDone =>
    /\ \A k \in 1..Len(result) :
         /\ result[k].metadata.chunkIndex = k - 1
         /\ result[k].metadata.filename = call.filename
         /\ result[k].id = call.filename \o "-chunk-" \o ToString(k - 1)
    /\ {result[k].metadata.chunkIndex : k \in 1..Len(result)}
         = 0..(Len(result) - 1)

\* C5 witness: the third chunk of g.pdf.
C5_Witness ==
  /\ ChunkTextDone
  /\ call.filename = "g.pdf"
  /\ Len(result) = 3
  /\ result[3].id = "g.pdf-chunk-2"

\* C6: no two chunks returned by one call of chunkText or of chunkByPages
\* have the same id.
C6_IdsUnique ==
  pc = "done" =>
    \A i, j \in 1..Len(result) : result[i].id = result[j].id => i = j

\* C6 witness: chunkByPages returned chunks of two pages that have the same
\* index within their page.
C6_Witness ==
  /\ ChunkByPagesDone
  /\ \E i, j \in 1..Len(result) :
       /\ result[i].metadata.page # result[j].metadata.page
       /\ result[i].metadata.chunkIndex = result[j].metadata.chunkIndex
       /\ result[i].id # result[j].id

\* C6 second witness: chunkByPages returned two chunks of one page.
C6_WitnessSamePage ==
  /\ ChunkByPagesDone
  /\ \E i, j \in 1..Len(result) :
       /\ i # j
       /\ result[i].metadata.page = result[j].metadata.page

\* the text has exactly one non-blank sentence segment: it has a character
\* that is neither whitespace nor a terminator, and no terminator stands
\* between the first and the last such character
OneSegment(text) ==
  /\ WordPositions(text) # {}
  /\ \A i \in TerminatorPositions(text) :
       i < SetMin(WordPositions(text)) \/ i > SetMax(WordPositions(text))

\* that segment, trimmed
TheSegment(text) ==
  SubSeq(text, SetMin(WordPositions(text)), SetMax(WordPositions(text)))

\* C7: with positive options, a text with exactly one non-blank sentence
\* segment gives exactly one chunk: the trimmed segment followed by one '.',
\* chunkIndex 0, totalChunks 1, whatever the length of the sentence.
C7_SingleSentenceSingleChunk ==
  (ChunkTextDone /\ PositiveOptions /\ OneSegment(call.text)) =>
    /\ Len(result) = 1
    /\ result[1].content = TheSegment(call.text) \o <<".">>
    /\ result[1].metadata.chunkIndex = 0
    /\ result[1].metadata.totalChunks = 1

\* C7 witness: a sentence without terminal punctuation, longer than
\* chunkSize, came back as one chunk.
C7_Witness ==
  /\ ChunkTextDone
  /\ PositiveOptions
  /\ call.text = <<" ", "a", " ", "a">>
  /\ Opts.chunkSize = 1
  /\ Len(result) = 1
  /\ result[1].content = <<"a", " ", "a", ".">>

\* the options C8 is about
C8_Options ==
  /\ PositiveOptions
  /\ Opts.minChunkSize <= Opts.chunkSize
  /\ Opts.chunkOverlap <= Opts.chunkSize

\* C8: with positive options, minChunkSize <= chunkSize and chunkOverlap <=
\* chunkSize, no chunk is longer than chunkSize + 1 + L, L the length of the
\* longest sentence of the text with its appended '.'.
C8_ChunkLengthBound ==
  (ChunkTextDone /\ C8_Options) =>
    \A k \in 1..Len(result) :
      Len(result[k].content)
        <= Opts.chunkSize + 1 + LongestSentence(SentenceList(call.text))

\* C8 witness: a chunk that carries overlap reached the bound.
C8_Witness ==
  /\ ChunkTextDone
  /\ C8_Options
  /\ \E k \in 2..Len(result) :
       Len(result[k].content)
         = Opts.chunkSize + 1 + LongestSentence(SentenceList(call.text))

\* the options for which the design defines the behaviour: positive, with
\* minChunkSize and chunkOverlap below chunkSize
DefinedOptions ==
  /\ PositiveOptions
  /\ Opts.minChunkSize < Opts.chunkSize
  /\ Opts.chunkOverlap < Opts.chunkSize

\* C9: every chunk other than the last has a content of at least
\* minChunkSize characters.  The claim is about all positive options; it is
\* stated here for the options the design defines, where it already fails.
C9_FlushedChunksReachMinSize ==
  (ChunkTextDone /\ DefinedOptions) =>
    \A k \in 1..(Len(result) - 1) :
      Len(result[k].content) >= Opts.minChunkSize

\* C10: the content of every chunk after the first begins with a non-empty
\* suffix of the previous chunk's content, followed (with or without a
\* separating blank) by a sentence of the text.  The claim is about every
\* chunkOverlap >= 1; it is stated here for the options the design defines,
\* where it already fails.
C10_OverlapCarried ==
  (ChunkTextDone /\ DefinedOptions) =>
    \A k \in 1..(Len(result) - 1) :
      \E m \in 1..Len(result[k].content) :
        \E i \in 1..Len(SentenceList(call.text)) :
          \E sep \in {<<>>, <<" ">>} :
            IsPrefix(Suffix(result[k].content, m) \o sep
                       \o SentenceList(call.text)[i],
                     result[k + 1].content)

\* content ends with s
EndsWith(content, s) ==
  Len(s) <= Len(content) /\ Suffix(content, Len(s)) = s

\* s occurs in content, whole and contiguous
Occurs(content, s) == FirstOccurrence(content, s, 1) > 0

\* the sentences of the call's text that are longer than chunkSize
OversizedSentences ==
  {s \in {SentenceList(call.text)[i] : i \in 1..Len(SentenceList(call.text))} :
     Len(s) > Opts.chunkSize}

\* C11 as stated: every sentence longer than chunkSize is the whole content
\* of some chunk.  The claim is about all positive options; it is stated here
\* for the options the design defines, where it already fails.
C11_OversizedIsOwnChunk ==
  (ChunkTextDone /\ DefinedOptions) =>
    \A s \in OversizedSentences :
      \E k \in 1..Len(result) : result[k].content = s

\* C11 amended: with positive options, every sentence longer than chunkSize
\* occurs whole in some chunk, and when minChunkSize <= chunkSize that chunk
\* ends with the sentence; the chunk may begin with overlap text or with
\* earlier sentences.
C11_OversizedKeptWhole ==
  (ChunkTextDone /\ PositiveOptions) =>
    \A s \in OversizedSentences :
      \E k \in 1..Len(result) :
        IF Opts.minChunkSize <= Opts.chunkSize
        THEN EndsWith(result[k].content, s)
        ELSE Occurs(result[k].content, s)

\* C11 witness: an oversized sentence closes a chunk that begins with
\* carried overlap text, and no chunk is the sentence alone.
C11_Witness ==
  /\ ChunkTextDone
  /\ DefinedOptions
  /\ \E s \in OversizedSentences :
       /\ \E k \in 2..Len(result) :
            EndsWith(result[k].content, s) /\ result[k].content # s
       /\ \A k \in 1..Len(result) : result[k].content # s

\* the chunks of a chunkByPages result labelled with page p, in result order
ChunksOfPage(chunks, p) == SelectSeq(chunks, LAMBDA c : c.metadata.page = p)

\* C12: for every page position p, the chunks of the chunkByPages result
\* with metadata.page = p are, in order and number, the chunks chunkText
\* gives for that page alone, with the same content, filename, chunkIndex and
\* totalChunks, the id filename-page<p>-chunk-<chunkIndex> and the page
\* field; the result holds no other chunk.
C12_PagesChunkedIndependently ==
  ChunkByPagesDone =>
    /\ \A k \in 1..Len(result) : result[k].metadata.page \in 1..Len(call.pages)
    /\ \A p \in 1..Len(call.pages) :
         LET alone == chunkText(call.pages[p], call.filename, call.options)
             got   == ChunksOfPage(result, p)
         IN  /\ Len(got) = Len(alone)
             /\ \A k \in 1..Len(got) :
                  /\ got[k].content = alone[k].content
                  /\ got[k].metadata.filename = alone[k].metadata.filename
                  /\ got[k].metadata.chunkIndex = alone[k].metadata.chunkIndex
                  /\ got[k].metadata.totalChunks = alone[k].metadata.totalChunks
                  /\ got[k].metadata.totalChunks = Len(got)
                  /\ got[k].id = call.filename \o "-page" \o ToString(p)
                                   \o "-chunk-"
                                   \o ToString(alone[k].metadata.chunkIndex)

\* C12 witness: two pages gave chunks, each with the totalChunks of its own
\* page.
C12_Witness ==
  /\ ChunkByPagesDone
  /\ Len(call.pages) = 2
  /\ Len(result) = 2
  /\ result[1].metadata.page = 1 /\ result[1].metadata.totalChunks = 1
  /\ result[2].metadata.page = 2 /\ result[2].metadata.totalChunks = 1

\* C13: every chunk's metadata.page is the 1-based position of the page its
\* content came from (the sentences of page p are covered, in order, by the
\* chunks labelled p, and every chunk labelled p with a content holds a
\* sentence of page p), and the chunks are listed in non-decreasing page
\* order.
C13_PageIsSourcePage ==
  ChunkByPagesDone =>
    /\ \A k \in 1..Len(result) :
         LET p == result[k].metadata.page
         IN  /\ p \in 1..Len(call.pages)
             /\ \/ result[k].content = <<>>
                \/ \E i \in 1..Len(SentenceList(call.pages[p])) :
                     Occurs(result[k].content, SentenceList(call.pages[p])[i])
    /\ \A p \in 1..Len(call.pages) :
         Covers(SentenceList(call.pages[p]), 1, ChunksOfPage(result, p), 1, 1)
    /\ \A j, k \in 1..Len(result) :
         j <= k => result[j].metadata.page <= result[k].metadata.page

\* C13 witness: the first page is whitespace-only and gives no chunk; the
\* chunk of the second page is labelled 2.
C13_Witness ==
  /\ ChunkByPagesDone
  /\ call.pages = <<<<" ">>, <<"a", ".">>>>
  /\ Len(result) = 1
  /\ result[1].metadata.page = 2

---------------------------------------------------------------------------
(* Properties of mergeSmallChunks.                                         *)

\* a mergeSmallChunks call has returned (and was not yet repeated)
MergeDone == pc = "done" /\ call.op = "mergeSmallChunks"

\* the ways to cut n input chunks into m runs of consecutive chunks: the
\* positions at which the runs start
Partitions(n, m) ==
  {s \in [1..m -> 1..n] :
     /\ m >= 1 => s[1] = 1
     /\ \A j \in 1..(m - 1) : s[j] < s[j + 1]}

\* the position at which run j of the cut s ends
RunEnd(s, j, n) == IF j = Len(s) THEN n ELSE s[j + 1] - 1

\* the contents of chunks lo..hi joined by single spaces
RECURSIVE JoinContents(_, _, _)
JoinContents(chunks, lo, hi) ==
  IF lo = hi THEN chunks[lo].content
  ELSE JoinContents(chunks, lo, hi - 1) \o <<" ">> \o chunks[hi].content

\* the cuts of the input for which every output chunk holds the joined
\* contents of its run
RunsOf(input, output) ==
  {s \in Partitions(Len(input), Len(output)) :
     /\ Len(output) = 0 => Len(input) = 0
     /\ \A j \in 1..Len(output) :
          output[j].content
            = JoinContents(input, s[j], RunEnd(s, j, Len(input)))}

\* C14: every output chunk is built from a run of consecutive input chunks
\* that all have the output chunk's filename.
C14_NoMergeAcrossFilenames ==
  MergeDone =>
    \E s \in RunsOf(call.chunks, result) :
      \A j \in 1..Len(result) :
        \A i \in s[j]..RunEnd(s, j, Len(call.chunks)) :
          call.chunks[i].metadata.filename = result[j].metadata.filename

\* C14 witness: a merged chunk that is still below minSize stands before a
\* chunk of another filename, which was not absorbed.
C14_Witness ==
  /\ MergeDone
  /\ Len(call.chunks) = 3
  /\ Len(result) = 2
  /\ Len(result[1].content) < call.minSize
  /\ result[1].content = <<"a", " ", "b", "b">>
  /\ result[1].metadata.filename # result[2].metadata.filename

\* C15: an output chunk keeps the id, filename, page and chunkIndex of the
\* first input chunk of its run.
C15_MergedKeepsFirstIdentity ==
  MergeDone =>
    \E s \in RunsOf(call.chunks, result) :
      \A j \in 1..Len(result) :
        LET first == call.chunks[s[j]]
        IN  /\ result[j].id = first.id
            /\ result[j].metadata.filename = first.metadata.filename
            /\ result[j].metadata.chunkIndex = first.metadata.chunkIndex
            /\ DOMAIN result[j].metadata = DOMAIN first.metadata
            /\ "page" \in DOMAIN first.metadata
                 => result[j].metadata.page = first.metadata.page

\* C15 witness: three chunks of g.pdf became one, which has the id and page
\* of the first.
C15_Witness ==
  /\ MergeDone
  /\ Len(call.chunks) = 3
  /\ Len(result) = 1
  /\ result[1].id = "c1"
  /\ "page" \in DOMAIN result[1].metadata
  /\ result[1].metadata.page = 1
  /\ result[1].metadata.chunkIndex = 0

\* C16: an output chunk built from a run of k+1 input chunks has the run's
\* contents joined by single spaces in input order, and the totalChunks of
\* the run's first chunk minus k.
C16_JoinedContentAndTotal ==
  MergeDone =>
    \E s \in Partitions(Len(call.chunks), Len(result)) :
      /\ Len(result) = 0 => Len(call.chunks) = 0
      /\ \A j \in 1..Len(result) :
           LET last == RunEnd(s, j, Len(call.chunks))
           IN  /\ result[j].content = JoinContents(call.chunks, s[j], last)
               /\ result[j].metadata.totalChunks
                    = call.chunks[s[j]].metadata.totalChunks - (last - s[j])

\* C16 witness: a run of three chunks whose first has totalChunks 7 and
\* whose others have 3 became one chunk with totalChunks 5.
C16_Witness ==
  /\ MergeDone
  /\ Len(call.chunks) = 3
  /\ call.chunks[1].metadata.totalChunks = 7
  /\ call.chunks[2].metadata.totalChunks = 3
  /\ call.chunks[3].metadata.totalChunks = 3
  /\ Len(result) = 1
  /\ result[1].content = <<"c", "c", "c", " ", "a", " ", "b", "b">>
  /\ result[1].metadata.totalChunks = 5

\* some input chunk shorter than minSize stands right before a chunk with
\* the same filename
SomeMergeable(chunks, minSize) ==
  \E i \in 1..(Len(chunks) - 1) :
    /\ Len(chunks[i].content) < minSize
    /\ chunks[i + 1].metadata.filename = chunks[i].metadata.filename

\* C17: the output is shorter than the input exactly when some input chunk
\* shorter than minSize stands right before a chunk with the same filename;
\* otherwise the output is the input.
C17_ShorterIffMergeable ==
  MergeDone =>
    /\ Len(result) < Len(call.chunks)
         <=> SomeMergeable(call.chunks, call.minSize)
    /\ ~SomeMergeable(call.chunks, call.minSize) => result = call.chunks

\* C17 witness: the only mergeable chunk is the second of three, and the
\* output has two chunks.
C17_Witness ==
  /\ MergeDone
  /\ Len(call.chunks) = 3
  /\ Len(call.chunks[1].content) >= call.minSize
  /\ SomeMergeable(call.chunks, call.minSize)
  /\ Len(result) = 2

\* C18: merging what mergeSmallChunks returned, with the same minSize,
\* returns it unchanged: length, order, ids, contents and metadata.
C18_MergeIdempotent ==
  [][(pc = "done" /\ pc' = "again") => result' = result]_vars

\* C18 witness: the first call merged chunks, left a chunk below minSize,
\* and the second call has returned.
C18_Witness ==
  /\ pc = "again"
  /\ call.op = "mergeSmallChunks"
  /\ Len(call.chunks) = 3
  /\ Len(result) = 2
  /\ \E k \in 1..2 : Len(result[k].content) < call.minSize

---------------------------------------------------------------------------
(* The three functions run loop iteration by loop iteration, on option     *)
(* values of every sign.  The running call keeps its local variables in    *)
(* loop; the program runs on until the call returns.                       *)

\* bound on the text length of a stepped chunkText call
MaxStepLen == 3

\* bound on the option values of a stepped call; they start at -1
MaxStepSize == 2

StepOptionValues ==
  [chunkSize    : -1..MaxStepSize,
   chunkOverlap : -1..MaxStepSize,
   minChunkSize : -1..MaxStepSize]

\* the options of a stepped chunkByPages call: one value in all three fields
PageStepOptionValues ==
  {o \in StepOptionValues :
     o.chunkOverlap = o.chunkSize /\ o.minChunkSize = o.chunkSize}

\* the chunk lists of a stepped mergeSmallChunks call
StepChunkLists ==
  UNION {{[k \in 1..n |-> InputChunk(k, d[k][1], d[k][2], n)] :
            d \in [1..n -> MergeContents \X Filenames]} :
         n \in 0..MaxChunks}

StepCalls ==
  [op : {"chunkText"}, text : SeqsUpTo(PageAlphabet, MaxStepLen),
   filename : {"f.txt"}, options : StepOptionValues]
  \cup
  [op : {"chunkByPages"}, pages : PageLists,
   filename : {"g.pdf"}, options : PageStepOptionValues]
  \cup
  [op : {"mergeSmallChunks"}, chunks : StepChunkLists,
   minSize : -1..MaxMergeMin]

InitSteps ==
  /\ call \in StepCalls
  /\ result = <<>>
  /\ pc = "call"
  /\ loop = NoLoop
  /\ effects = NoEffects
  /\ heap = NoHeap

\* chunkText up to the loop: the early returns, or the loop's variables
StartChunkText ==
  /\ pc = "call"
  /\ call.op = "chunkText"
  /\ IF \/ call.text = <<>>
        \/ Len(Trim(call.text)) = 0
        \/ Len(Sentences(call.text)) = 0
     THEN /\ result' = <<>>
          /\ pc' = "done"
          /\ loop' = NoLoop
     ELSE /\ loop' = [at |-> "sentences", k |-> 0, st |-> LoopInit]
          /\ pc' = "running"
          /\ UNCHANGED result
  /\ UNCHANGED call
  /\ UNCHANGED effects
  /\ UNCHANGED heap

\* one iteration of `for (const sentence of sentences)`
StepSentence ==
  /\ pc = "running"
  /\ loop.at = "sentences"
  /\ loop.k < Len(Sentences(call.text))
  /\ loop' = [loop EXCEPT
                !.k  = loop.k + 1,
                !.st = SentenceStep(loop.st, Sentences(call.text)[loop.k + 1],
                                    call.filename, WithDefaults(call.options))]
  /\ UNCHANGED <<call, result, pc>>
  /\ UNCHANGED effects
  /\ UNCHANGED heap

\* chunkText after the loop: the last chunk, the totals, the return
FinishChunkText ==
  /\ pc = "running"
  /\ loop.at = "sentences"
  /\ loop.k >= Len(Sentences(call.text))
  /\ result' = UpdateTotals(PushLast(loop.st, call.filename))
  /\ pc' = "done"
  /\ loop' = NoLoop
  /\ UNCHANGED call
  /\ UNCHANGED effects
  /\ UNCHANGED heap

StartChunkByPages ==
  /\ pc = "call"
  /\ call.op = "chunkByPages"
  /\ loop' = [at |-> "pages", k |-> 0, allChunks |-> <<>>]
  /\ pc' = "running"
  /\ UNCHANGED <<call, result>>
  /\ UNCHANGED effects
  /\ UNCHANGED heap

\* pages.forEach has a page left to visit
MorePages ==
  /\ pc = "running"
  /\ loop.at = "pages"
  /\ loop.k < Len(call.pages)

\* one callback of pages.forEach
StepPage ==
  /\ MorePages
  /\ loop' = [loop EXCEPT
                !.k         = loop.k + 1,
                !.allChunks = loop.allChunks \o
                              PageChunks(call.pages[loop.k + 1], loop.k,
                                         call.filename, call.options)]
  /\ UNCHANGED <<call, result, pc>>
  /\ UNCHANGED effects
  /\ UNCHANGED heap

FinishChunkByPages ==
  /\ pc = "running"
  /\ loop.at = "pages"
  /\ loop.k >= Len(call.pages)
  /\ result' = loop.allChunks
  /\ pc' = "done"
  /\ loop' = NoLoop
  /\ UNCHANGED call
  /\ UNCHANGED effects
  /\ UNCHANGED heap

\* mutant of NextIndex: the index is not incremented
NextIndex_Stay(i) == i

\* i++
NextIndex(i) == i + 1

StartMerge ==
  /\ pc = "call"
  /\ call.op = "mergeSmallChunks"
  /\ loop' = [at |-> "outer", i |-> 0, mergedChunks |-> <<>>]
  /\ pc' = "running"
  /\ UNCHANGED <<call, result>>
  /\ UNCHANGED effects
  /\ UNCHANGED heap

\* the outer while test holds: let currentChunk = chunks[i]
EnterOuter ==
  /\ pc = "running"
  /\ loop.at = "outer"
  /\ loop.i < Len(call.chunks)
  /\ loop' = [at |-> "inner", i |-> loop.i,
              currentChunk |-> call.chunks[loop.i + 1],
              mergedChunks |-> loop.mergedChunks]
  /\ UNCHANGED <<call, result, pc>>
  /\ UNCHANGED effects
  /\ UNCHANGED heap

\* one iteration of the inner while loop
StepInner ==
  /\ pc = "running"
  /\ loop.at = "inner"
  /\ MergeCond(call.chunks, loop.i, loop.currentChunk, call.minSize)
  /\ loop' = [loop EXCEPT
                !.currentChunk = Absorb(loop.currentChunk,
                                        call.chunks[loop.i + 2]),
                !.i            = NextIndex(loop.i)]
  /\ UNCHANGED <<call, result, pc>>
  /\ UNCHANGED effects
  /\ UNCHANGED heap

\* the inner while test fails: mergedChunks.push(currentChunk); i++
LeaveInner ==
  /\ pc = "running"
  /\ loop.at = "inner"
  /\ ~MergeCond(call.chunks, loop.i, loop.currentChunk, call.minSize)
  /\ loop' = [at |-> "outer", i |-> NextIndex(loop.i),
              mergedChunks |-> loop.mergedChunks \o <<loop.currentChunk>>]
  /\ UNCHANGED <<call, result, pc>>
  /\ UNCHANGED effects
  /\ UNCHANGED heap

\* the outer while test fails: return mergedChunks
FinishMerge ==
  /\ pc = "running"
  /\ loop.at = "outer"
  /\ loop.i >= Len(call.chunks)
  /\ result' = loop.mergedChunks
  /\ pc' = "done"
  /\ loop' = NoLoop
  /\ UNCHANGED call
  /\ UNCHANGED effects
  /\ UNCHANGED heap

NextSteps ==
  \/ StartChunkText \/ StepSentence \/ FinishChunkText
  \/ StartChunkByPages \/ StepPage \/ FinishChunkByPages
  \/ StartMerge \/ EnterOuter \/ StepInner \/ LeaveInner \/ FinishMerge

\* the call is the only thing running: it is never suspended for ever
SpecSteps == InitSteps /\ [][NextSteps]_vars /\ WF_vars(NextSteps)

\* a loop takes one step per element and leaves only past the last one
LoopsAdvance ==
  /\ loop.at = "sentences" =>
       IF loop'.at = "sentences"
       THEN loop'.k = loop.k + 1 /\ loop'.k <= Len(Sentences(call.text))
       ELSE loop.k = Len(Sentences(call.text)) /\ pc' = "done"
  /\ loop.at = "pages" =>
       IF loop'.at = "pages"
       THEN loop'.k = loop.k + 1 /\ loop'.k <= Len(call.pages)
       ELSE loop.k = Len(call.pages) /\ pc' = "done"
  /\ loop.at = "outer" =>
       IF loop'.at = "inner" THEN loop'.i = loop.i /\ loop.i < Len(call.chunks)
       ELSE loop.i = Len(call.chunks) /\ pc' = "done"
  /\ loop.at = "inner" =>
       /\ loop'.at \in {"inner", "outer"}
       /\ loop'.i = loop.i + 1
       /\ loop'.i <= Len(call.chunks)

\* the number of steps a call can still take, at most, when it stands at p
\* with the arguments c and the loop variables l
RemainingOf(p, c, l) ==
  IF p = "done" THEN 0
  ELSE IF p = "call"
  THEN IF c.op = "chunkText" THEN Len(Sentences(c.text)) + 2
       ELSE IF c.op = "chunkByPages" THEN Len(c.pages) + 2
       ELSE 2 * Len(c.chunks) + 2
  ELSE IF l.at = "sentences" THEN Len(Sentences(c.text)) - l.k + 1
  ELSE IF l.at = "pages" THEN Len(c.pages) - l.k + 1
  ELSE IF l.at = "outer" THEN 2 * (Len(c.chunks) - l.i) + 1
  ELSE 2 * (Len(c.chunks) - l.i)

\* every step brings the call closer to its return
StepsLeftDecrease ==
  /\ RemainingOf(pc', call', loop') >= 0
  /\ RemainingOf(pc', call', loop') < RemainingOf(pc, call, loop)

\* the call has returned or can take a step (StepPage can whenever MorePages
\* holds)
ReturnedOrCanStep ==
  \/ pc = "done"
  \/ MorePages
  \/ ENABLED (\/ StartChunkText \/ StepSentence \/ FinishChunkText
              \/ StartChunkByPages \/ FinishChunkByPages
              \/ StartMerge \/ EnterOuter \/ StepInner \/ LeaveInner
              \/ FinishMerge)

\* C19: every call returns, whatever the option values: every step takes
\* the call closer to its return and leaves it returned or able to step
\* again, the sentence loop takes exactly one step per sentence and the
\* merge index strictly grows from one test of the outer loop to the next.
C19_Terminates ==
  [][LoopsAdvance /\ StepsLeftDecrease /\ ReturnedOrCanStep']_vars

\* C19 witness: a chunkText call with chunkSize 0, chunkOverlap above it and
\* a negative minChunkSize returned chunks for its two sentences.
C19_Witness ==
  /\ pc = "done"
  /\ call.op = "chunkText"
  /\ call.options.chunkSize = 0
  /\ call.options.chunkOverlap = 2
  /\ call.options.minChunkSize = -1
  /\ Len(Sentences(call.text)) = 2
  /\ Len(result) >= 2

\* C19 witness for mergeSmallChunks: a call with a negative minSize returned
\* its three chunks
C19_WitnessMerge ==
  /\ pc = "done"
  /\ call.op = "mergeSmallChunks"
  /\ call.minSize = -1
  /\ Len(call.chunks) = 3
  /\ Len(result) = 3

\* the stepped calls return what the functions return
StepsAgree ==
  pc = "done" =>
    result = CASE call.op = "chunkText" ->
                    chunkText(call.text, call.filename, call.options)
               [] call.op = "chunkByPages" ->
                    chunkByPages(call.pages, call.filename, call.options)
               [] call.op = "mergeSmallChunks" ->
                    mergeSmallChunks(call.chunks, call.minSize)

---------------------------------------------------------------------------
(* The upload route: POST /api/upload handles one request.                 *)

\* bound on the length of the text of an uploaded file
MaxUploadLen == 2

\* bound on the clock readings Date.now() can give
MaxNow == 1

\* const maxSize = 10 * 1024 * 1024
maxSize == 10 * 1024 * 1024

allowedTypes ==
  {"application/pdf",
   "application/vnd.openxmlformats-officedocument.wordprocessingml.document",
   "application/msword",
   "text/plain"}

\* the MIME types a client can send: the allowed ones, an image, none
MimeTypes == allowedTypes \cup {"image/png", ""}

UploadNames == Filenames \cup {"h i.txt"}

UploadTexts == SeqsUpTo(PageAlphabet, MaxUploadLen)

\* formData.get('file') found nothing
NoFile == [present |-> FALSE]

\* the files a form can carry: type, name and size as the client sent them,
\* the page count and text its parser extracts, or parses FALSE when the
\* parser throws.  The text is no longer than the file.  A plain text file
\* is its own text, so its size is the text's length; one above maxSize is
\* never read and stands with no text.
UploadFiles ==
  {f \in [present : {TRUE}, type : MimeTypes, name : UploadNames,
          size : 0..MaxUploadLen \cup {maxSize, maxSize + 1},
          numpages : 1..2, text : UploadTexts, parses : BOOLEAN] :
     /\ f.type \notin {"application/pdf"} => f.numpages = 1
     /\ Len(f.text) <= f.size
     /\ f.type = "text/plain" =>
          /\ f.parses
          /\ \/ f.size = Len(f.text)
             \/ f.size > maxSize /\ f.text = <<>>}

\* the requests: a body that cannot be read as form data, or a form with or
\* without a file
UploadRequests ==
  [op : {"POST"}, body : {"unreadable"}, file : {NoFile}]
  \cup [op : {"POST"}, body : {"form"}, file : {NoFile} \cup UploadFiles]

\* file.name.replace(/[^a-zA-Z0-9.-]/g, '_') on the names of UploadNames
safeFilename(name) == IF name = "h i.txt" THEN "h_i.txt" ELSE name

\* `${Date.now()}_${safeFilename}` in the uploads directory
filePath(now, name) == ToString(now) \o "_" \o safeFilename(name)

\* processPDF once the parser has given data.text and data.numpages
processPDF(file) ==
  IF file.numpages > 1
  THEN chunkText(file.text, file.name,
                 [chunkSize |-> 1000, chunkOverlap |-> 200])
  ELSE chunkText(file.text, file.name, [x \in {} |-> 0])

processWord(file) == chunkText(file.text, file.name, [x \in {} |-> 0])

processText(file) == chunkText(file.text, file.name, [x \in {} |-> 0])

\* switch (file.type)
Process(file) ==
  CASE file.type = "application/pdf" -> processPDF(file)
    [] file.type \in
         {"application/vnd.openxmlformats-officedocument.wordprocessingml.document",
          "application/msword"} -> processWord(file)
    [] OTHER -> processText(file)

\* the document id Discovery answers for a chunk
DocumentId(chunk) == "doc-" \o chunk.id

\* documentIds after the first n chunks, when addDocument throws for the
\* chunks at the positions in failing
RECURSIVE DocumentIdsAfter(_, _, _)
DocumentIdsAfter(chunks, n, failing) ==
  IF n = 0 THEN <<>>
  ELSE DocumentIdsAfter(chunks, n - 1, failing) \o
       (IF n \in failing THEN <<>> ELSE <<DocumentId(chunks[n])>>)

\* mutant of addDocuments: the loop ends at the first chunk that fails
addDocuments_AbortOnFailure(chunks, failing) ==
  LET bad   == {k \in 1..Len(chunks) : k \in failing}
      first == IF bad = {} THEN Len(chunks) + 1
               ELSE CHOOSE k \in bad : \A j \in bad : k <= j
  IN  DocumentIdsAfter(chunks, first - 1, failing)

\* IBMDiscoveryService.addDocuments: every throw of addDocument is caught
\* inside the loop, so it always returns
addDocuments(chunks, failing) == DocumentIdsAfter(chunks, Len(chunks), failing)

\* mutant of addDocumentsThrows: no try/catch around addDocument, its throw
\* leaves addDocuments
addDocumentsThrows_Uncaught(chunks, failing) ==
  \E k \in 1..Len(chunks) : k \in failing

\* whether addDocuments throws: the try block of its loop holds every
\* statement that can, and the catch block only logs
addDocumentsThrows(chunks, failing) == FALSE

\* the chunk ids handed to addDocument, in order
Attempted(chunks) == [k \in 1..Len(chunks) |-> chunks[k].id]

\* NextResponse.json({ error }, { status })
ErrorResponse(status, error) == [status |-> status, body |-> [error |-> error]]

\* mutant of NotAllowed: every type is let through
NotAllowed_Never(file) == FALSE

\* !allowedTypes.includes(file.type)
NotAllowed(file) == file.type \notin allowedTypes

\* mutant of TooLarge: the size is not checked
TooLarge_Never(file) == FALSE

\* file.size > maxSize
TooLarge(file) == file.size > maxSize

\* the response and the effects of POST for the request req, when mkdir and
\* writeFile succeed as mkdirOk and writeOk say, the clock reads now and
\* addDocument throws for the chunks at the positions in failing
Handle(req, mkdirOk, writeOk, now, failing) ==
  LET file    == req.file
      made    == [NoEffects EXCEPT !.dir = mkdirOk]
      saved   == [made EXCEPT !.files = <<filePath(now, file.name)>>]
      chunks  == Process(file)
      chunked == [saved EXCEPT !.chunked = 1]
      failed  == ErrorResponse(500, "Failed to process file")
  IN  IF req.body # "form"
      THEN [response |-> failed, effects |-> made]
      ELSE IF ~file.present
      THEN [response |-> ErrorResponse(400, "No file provided"),
            effects  |-> made]
      ELSE IF NotAllowed(file)
      THEN [response |-> ErrorResponse(400, "Unsupported file type. Please upload PDF, Word, or text files."),
            effects  |-> made]
      ELSE IF TooLarge(file)
      THEN [response |-> ErrorResponse(400, "File too large. Maximum size is 10MB."),
            effects  |-> made]
      ELSE IF ~(mkdirOk /\ writeOk)
      THEN [response |-> failed, effects |-> made]
      ELSE IF ~file.parses
      THEN [response |-> failed, effects |-> saved]
      ELSE IF Len(chunks) = 0
      THEN [response |-> ErrorResponse(400, "No readable content found in the file."),
            effects  |-> chunked]
      ELSE IF addDocumentsThrows(chunks, failing)
      THEN [response |->
              [status |-> 500,
               body   |-> [success |-> FALSE,
                           error   |-> "File was processed but failed to upload to IBM Discovery",
                           details |-> [filename      |-> file.name,
                                        chunksCreated |-> Len(chunks)]]],
            effects |-> [chunked EXCEPT !.added = Attempted(chunks)]]
      ELSE [response |->
              [status |-> 200,
               body   |-> [success |-> TRUE,
                           details |->
                             [filename          |-> file.name,
                              fileSize          |-> file.size,
                              chunksCreated     |-> Len(chunks),
                              documentsUploaded |->
                                Len(addDocuments(chunks, failing)),
                              processingTime    |-> now]]],
            effects |-> [chunked EXCEPT !.added = Attempted(chunks)]]

InitUpload ==
  /\ call \in UploadRequests
  /\ result = <<>>
  /\ pc = "call"
  /\ loop = NoLoop
  /\ effects = NoEffects
  /\ heap = NoHeap

POST ==
  /\ pc = "call"
  /\ call.op = "POST"
  /\ \E mkdirOk \in BOOLEAN, writeOk \in BOOLEAN, now \in 1..MaxNow :
       \E failing \in SUBSET (1..(IF call.body = "form" /\ call.file.present
                                  THEN Len(Process(call.file)) ELSE 0)) :
         LET out == Handle(call, mkdirOk, writeOk, now, failing)
         IN  /\ result' = out.response
             /\ effects' = out.effects
  /\ pc' = "done"
  /\ UNCHANGED <<call, loop>>
  /\ UNCHANGED heap

NextUpload == POST

SpecUpload == InitUpload /\ [][NextUpload]_vars

\* a POST has been answered
UploadDone == pc = "done" /\ call.op = "POST"

\* ten megabytes
TenMB == 10485760

\* PDF, DOCX, DOC and plain text
DocumentTypes ==
  {"application/pdf",
   "application/vnd.openxmlformats-officedocument.wordprocessingml.document",
   "application/msword",
   "text/plain"}

---------------------------------------------------------------------------
(* IBMDiscoveryService.addDocuments called on a chunk list; Discovery      *)
(* rejects the chunks at the positions in call.failing.                    *)

AddDocumentsCalls ==
  {c \in [op : {"addDocuments"}, chunks : StepChunkLists,
          failing : SUBSET (1..MaxChunks)] :
     c.failing \subseteq 1..Len(c.chunks)}

InitAddDocuments ==
  /\ call \in AddDocumentsCalls
  /\ result = <<>>
  /\ pc = "call"
  /\ loop = NoLoop
  /\ effects = NoEffects
  /\ heap = NoHeap

CallAddDocuments ==
  /\ pc = "call"
  /\ call.op = "addDocuments"
  /\ result' = [threw       |-> addDocumentsThrows(call.chunks, call.failing),
                documentIds |-> addDocuments(call.chunks, call.failing)]
  /\ effects' = [NoEffects EXCEPT !.added = Attempted(call.chunks)]
  /\ pc' = "done"
  /\ UNCHANGED <<call, loop>>
  /\ UNCHANGED heap

NextAddDocuments == CallAddDocuments

SpecAddDocuments == InitAddDocuments /\ [][NextAddDocuments]_vars

\* an addDocuments call has ended
AddDocumentsDone == pc = "done" /\ call.op = "addDocuments"

\* the positions of the chunks Discovery accepted, in input order
Accepted(n, failing) ==
  SelectSeq([k \in 1..n |-> k], LAMBDA k : k \notin failing)

\* C21: addDocuments hands every chunk to Discovery once, in input order,
\* whatever failed before; it does not throw; it returns the document ids of
\* the accepted chunks in input order, so never more ids than chunks.
C21_PartialFailureTolerated ==
  AddDocumentsDone =>
    LET ok == Accepted(Len(call.chunks), call.failing)
    IN  /\ ~result.threw
        /\ effects.added = [k \in 1..Len(call.chunks) |-> call.chunks[k].id]
        /\ result.documentIds
             = [j \in 1..Len(ok) |-> "doc-" \o call.chunks[ok[j]].id]
        /\ Len(result.documentIds) <= Len(call.chunks)

\* C21 witness: the first of three chunks was rejected, the other two were
\* still sent and their ids returned.
C21_Witness ==
  /\ AddDocumentsDone
  /\ Len(call.chunks) = 3
  /\ call.failing = {1}
  /\ effects.added = <<"c1", "c2", "c3">>
  /\ result.documentIds = <<"doc-c2", "doc-c3">>

---------------------------------------------------------------------------
(* The admin route: GET and POST /api/admin handle one request.            *)

\* bound on the number of documents in the Discovery collection
MaxDocs == 2

\* bound on the position of the Discovery operation that fails
MaxFail == 3

\* what getServerSession gives: a session, null, or a throw
Sessions == {"admin", "none", "error"}

AdminActions ==
  {"status", "documents", "clear", "rebuild", "delete_document", "other"}

\* the document ids in the collection; a document can lack its id
DocumentIds == {"d1", "d2", ""}

\* the requests: who asks, what for, and what Discovery holds and does:
\* its operation number call.fails throws (0: none does)
AdminRequests ==
  [op : {"adminGET", "adminPOST"}, session : Sessions, action : AdminActions,
   body : {"json", "unreadable"}, documentId : {"d1", ""},
   collection : SeqsUpTo(DocumentIds, MaxDocs), fails : 0..MaxFail]

\* the Discovery operations of clearCollection: the listing, then one
\* deletion for every document that has an id
ClearOps(collection) ==
  <<"listDocuments">> \o
  [k \in 1..Len(SelectSeq(collection, LAMBDA d : d # "")) |->
     "deleteDocument " \o SelectSeq(collection, LAMBDA d : d # "")[k]]

\* the response and the Discovery operations when the handler calls the
\* operations planned and answers ok if none throws
Perform(req, planned, ok, failure) ==
  IF req.fails \in 1..Len(planned)
  THEN [response |-> [status |-> 500,
                      body   |-> [success |-> FALSE, error |-> failure]],
        ops      |-> SubSeq(planned, 1, req.fails)]
  ELSE [response |-> ok, ops |-> planned]

\* mutant of NoSession: the session is not checked
NoSession_Never(req) == FALSE

\* !session
NoSession(req) == req.session = "none"

Unauthorized == [status |-> 401, body |-> [error |-> "Unauthorized"]]

Success(message) ==
  [status |-> 200, body |-> [success |-> TRUE, message |-> message]]

HandleAdminGET(req) ==
  LET failure == "Failed to fetch admin data"
  IN  IF req.session = "error"
      THEN [response |-> [status |-> 500,
                          body   |-> [success |-> FALSE, error |-> failure]],
            ops      |-> <<>>]
      ELSE IF NoSession(req)
      THEN [response |-> Unauthorized, ops |-> <<>>]
      ELSE IF req.action = "status"
      THEN Perform(req, <<"getCollectionStatus", "listDocuments">>,
                   Success("status"), failure)
      ELSE IF req.action = "documents"
      THEN Perform(req, <<"listDocuments">>, Success("documents"), failure)
      ELSE [response |->
              [status |-> 400,
               body   |-> [error |-> "Invalid action. Use ?action=status or ?action=documents"]],
            ops |-> <<>>]

HandleAdminPOST(req) ==
  LET failure == "Failed to perform admin action"
      failed  == [status |-> 500,
                  body   |-> [success |-> FALSE, error |-> failure]]
  IN  IF req.session = "error"
      THEN [response |-> failed, ops |-> <<>>]
      ELSE IF NoSession(req)
      THEN [response |-> Unauthorized, ops |-> <<>>]
      ELSE IF req.body # "json"
      THEN [response |-> failed, ops |-> <<>>]
      ELSE IF req.action = "clear"
      THEN Perform(req, ClearOps(req.collection),
                   Success("Collection cleared successfully"), failure)
      ELSE IF req.action = "rebuild"
      THEN Perform(req, ClearOps(req.collection),
                   Success("Collection rebuilt successfully"), failure)
      ELSE IF req.action = "delete_document"
      THEN IF req.documentId = ""
           THEN [response |-> [status |-> 400,
                               body   |-> [error |-> "Document ID is required"]],
                 ops |-> <<>>]
           ELSE Perform(req, <<"deleteDocument " \o req.documentId>>,
                        Success("Document deleted successfully"), failure)
      ELSE [response |-> [status |-> 400, body |-> [error |-> "Invalid action"]],
            ops |-> <<>>]

InitAdmin ==
  /\ call \in AdminRequests
  /\ result = <<>>
  /\ pc = "call"
  /\ loop = NoLoop
  /\ effects = NoEffects
  /\ heap = NoHeap

AdminGET ==
  /\ pc = "call"
  /\ call.op = "adminGET"
  /\ result' = HandleAdminGET(call).response
  /\ effects' = [NoEffects EXCEPT !.ops = HandleAdminGET(call).ops]
  /\ pc' = "done"
  /\ UNCHANGED <<call, loop>>
  /\ UNCHANGED heap

AdminPOST ==
  /\ pc = "call"
  /\ call.op = "adminPOST"
  /\ result' = HandleAdminPOST(call).response
  /\ effects' = [NoEffects EXCEPT !.ops = HandleAdminPOST(call).ops]
  /\ pc' = "done"
  /\ UNCHANGED <<call, loop>>
  /\ UNCHANGED heap

NextAdmin == AdminGET \/ AdminPOST

SpecAdmin == InitAdmin /\ [][NextAdmin]_vars

\* an admin request has been answered
AdminDone == pc = "done" /\ call.op \in {"adminGET", "adminPOST"}

\* C22: an admin GET or POST without a session is answered 401 and calls no
\* Discovery operation; nor does one whose session could not be read.
C22_AdminNeedsSession ==
  AdminDone =>
    /\ call.session = "none" => result.status = 401 /\ effects.ops = <<>>
    /\ call.session # "admin" => effects.ops = <<>> /\ result.status # 200

\* C22 witness: a POST asking to clear a collection of two documents, sent
\* without a session, was answered 401.
C22_Witness ==
  /\ AdminDone
  /\ call.op = "adminPOST"
  /\ call.session = "none"
  /\ call.body = "json"
  /\ call.action = "clear"
  /\ call.collection = <<"d1", "d2">>
  /\ call.fails = 0
  /\ result.status = 401

\* an authenticated clear runs the listing and the deletions
C22_WitnessCleared ==
  /\ AdminDone
  /\ call.session = "admin"
  /\ effects.ops = <<"listDocuments", "deleteDocument d1", "deleteDocument d2">>
  /\ result.status = 200

---------------------------------------------------------------------------
(* Further properties of chunkText and getOverlapText.                     *)

\* C23: with minChunkSize 1, chunkOverlap 0 and a text whose sentences
\* (with the appended '.') are all at most chunkSize long, every chunk's
\* content is at most chunkSize long.
C23_OnlyOversizedExceeds ==
  (/\ ChunkTextDone
   /\ call.options # [x \in {} |-> 0]
   /\ Opts.minChunkSize = 1
   /\ Opts.chunkOverlap = 0
   /\ Opts.chunkSize >= 1
   /\ LongestSentence(SentenceList(call.text)) <= Opts.chunkSize)
  => \A k \in 1..Len(result) : Len(result[k].content) <= Opts.chunkSize

\* bound on the text length of a getOverlapText call
MaxOverlapLen == 4

\* bound on the overlapSize of a getOverlapText call
MaxOverlapArg == 3

OverlapCalls ==
  [op : {"getOverlapText"}, text : SeqsUpTo(PageAlphabet, MaxOverlapLen),
   overlapSize : 0..MaxOverlapArg]

InitOverlap ==
  /\ call \in OverlapCalls
  /\ result = <<>>
  /\ pc = "call"
  /\ loop = NoLoop
  /\ effects = NoEffects
  /\ heap = NoHeap

CallGetOverlapText ==
  /\ pc = "call"
  /\ call.op = "getOverlapText"
  /\ result' = getOverlapText(call.text, call.overlapSize)
  /\ pc' = "done"
  /\ UNCHANGED <<call, loop, effects>>
  /\ UNCHANGED heap

NextOverlap == CallGetOverlapText

SpecOverlap == InitOverlap /\ [][NextOverlap]_vars

\* a getOverlapText call has returned
OverlapDone == pc = "done" /\ call.op = "getOverlapText"

\* the last n characters of s
LastChars(s, n) == SubSeq(s, Len(s) - n + 1, Len(s))

\* the positions, from one, of the '.' characters of s
DotPositions(s) == {i \in 1..Len(s) : s[i] = "."}

\* C24: for N >= 1, getOverlapText(text, N) is text when text has at most N
\* characters; otherwise, with suffix the last N characters, it is the
\* trimmed part of suffix after its last '.' when that '.' is not the first
\* character of suffix, and suffix itself when suffix has no '.' or only as
\* its first character.  The result is never longer than N.
C24_OverlapRule ==
  (OverlapDone /\ call.overlapSize >= 1) =>
    LET N      == call.overlapSize
        suffix == LastChars(call.text, N)
        dots   == DotPositions(suffix)
    IN  /\ Len(call.text) <= N => result = call.text
        /\ Len(call.text) > N =>
             IF dots = {} \/ SetMax(dots) = 1
             THEN result = suffix
             ELSE result = Trim(SubSeq(suffix, SetMax(dots) + 1, N))
        /\ Len(result) <= N

\* C24 witness: the suffix "a.a" of a longer text has its last '.' in the
\* middle, and the seed is the "a" after it.
C24_Witness ==
  /\ OverlapDone
  /\ call.overlapSize = 3
  /\ call.text = <<"a", "a", ".", "a">>
  /\ result = <<"a">>

\* the suffix begins with its only '.', and is returned as it is
C24_WitnessDotFirst ==
  /\ OverlapDone
  /\ call.overlapSize = 2
  /\ call.text = <<"a", ".", "a">>
  /\ result = <<".", "a">>

\* C25: with positive options every chunk's content is non-empty, is its
\* own trim, ends with '.', and holds neither '!' nor '?'.
C25_PunctuationNormalised ==
  (ChunkTextDone /\ PositiveOptions) =>
    \A k \in 1..Len(result) :
      LET content == result[k].content
      IN  /\ content # <<>>
          /\ content = Trim(content)
          /\ content[Len(content)] = "."
          /\ \A i \in 1..Len(content) : content[i] \notin {"!", "?"}

\* C25 witness: a text whose sentences end with '!' and '?' gave two
\* chunks, the second seeded after a flush.
C25_Witness ==
  /\ ChunkTextDone
  /\ PositiveOptions
  /\ call.text = <<"a", "!", "a", "?">>
  /\ Len(result) = 2
  /\ result[1].content = <<"a", ".">>
  /\ result[2].content = <<".", " ", "a", ".">>

---------------------------------------------------------------------------
(* Further properties of mergeSmallChunks.                                 *)

\* C26: an output chunk shorter than minSize is the last chunk of the
\* output or stands right before a chunk with another filename.
C26_ShortOnlyAtBoundary ==
  MergeDone =>
    \A j \in 1..Len(result) :
      Len(result[j].content) < call.minSize =>
        \/ j = Len(result)
        \/ result[j + 1].metadata.filename # result[j].metadata.filename

\* C26 witness: a chunk that reached minSize by absorbing stands before a
\* short last chunk of the same file.
C26_Witness ==
  /\ MergeDone
  /\ call.minSize = 3
  /\ Len(call.chunks) = 3
  /\ Len(result) = 2
  /\ result[1].content = <<"a", " ", "b", "b">>
  /\ result[1].metadata.filename = result[2].metadata.filename
  /\ Len(result[2].content) < call.minSize

\* the contents of all the chunks joined by single spaces
JoinAll(chunks) ==
  IF chunks = <<>> THEN <<>> ELSE JoinContents(chunks, 1, Len(chunks))

\* the input chunks that are no output chunk: those absorbed
AbsorbedChunks(input, output) ==
  {k \in 1..Len(input) :
     \A j \in 1..Len(output) : output[j].id # input[k].id}

\* C27: the output contents joined by single spaces are the input contents
\* joined by single spaces, and the output has as many chunks as the input
\* less the absorbed ones.
C27_TextPreserved ==
  MergeDone =>
    /\ JoinAll(result) = JoinAll(call.chunks)
    /\ Len(result) = Len(call.chunks)
                       - Cardinality(AbsorbedChunks(call.chunks, result))
    /\ Len(result) = 0 <=> Len(call.chunks) = 0

\* C27 witness: three chunks became two, the middle one absorbed.
C27_Witness ==
  /\ MergeDone
  /\ Len(call.chunks) = 3
  /\ Len(result) = 2
  /\ AbsorbedChunks(call.chunks, result) = {2}
  /\ JoinAll(result) = <<"a", " ", "b", "b", " ", "c", "c", "c">>

---------------------------------------------------------------------------
(* mergeSmallChunks on objects held by reference: heap[r] is the chunk     *)
(* object at reference r, arrays are sequences of references.              *)

\* mutant of Allocate: the fields are assigned to the object at ref
Allocate_InPlace(h, ref, object) ==
  [heap |-> [h EXCEPT ![ref] = object], ref |-> ref]

\* currentChunk = { ...currentChunk, ... }: the object literal is a new
\* object, the one at ref is left as it is
Allocate(h, ref, object) == [heap |-> Append(h, object), ref |-> Len(h) + 1]

\* the chunk objects an array of references points at
Deref(h, refs) == [k \in 1..Len(refs) |-> h[refs[k]]]

\* the inner while loop, currentChunk a reference
RECURSIVE InnerLoopOnHeap(_, _, _, _, _)
InnerLoopOnHeap(h, chunks, i, currentChunk, minSize) ==
  IF MergeCond(Deref(h, chunks), i, h[currentChunk], minSize)
  THEN LET merged == Allocate(h, currentChunk,
                              Absorb(h[currentChunk], h[chunks[i + 2]]))
       IN  InnerLoopOnHeap(merged.heap, chunks, i + 1, merged.ref, minSize)
  ELSE [heap |-> h, i |-> i, currentChunk |-> currentChunk]

\* the outer while loop; mergedChunks.push(currentChunk) stores the reference
RECURSIVE OuterLoopOnHeap(_, _, _, _, _)
OuterLoopOnHeap(h, chunks, i, mergedChunks, minSize) ==
  IF i < Len(chunks)
  THEN LET inner == InnerLoopOnHeap(h, chunks, i, chunks[i + 1], minSize)
       IN  OuterLoopOnHeap(inner.heap, chunks, inner.i + 1,
                           mergedChunks \o <<inner.currentChunk>>, minSize)
  ELSE [heap |-> h, mergedChunks |-> mergedChunks]

mergeSmallChunksOnHeap(h, chunks, minSize) ==
  OuterLoopOnHeap(h, chunks, 0, <<>>, minSize)

\* the caller's chunk objects stand at the references 1..n and its array
\* holds them in that order
InitMergeOnHeap ==
  /\ heap \in StepChunkLists
  /\ call \in [op : {"mergeSmallChunks"}, chunks : {[k \in 1..Len(heap) |-> k]},
               minSize : 0..MaxMergeMin]
  /\ result = <<>>
  /\ pc = "call"
  /\ loop = NoLoop
  /\ effects = NoEffects

CallMergeOnHeap ==
  /\ pc = "call"
  /\ call.op = "mergeSmallChunks"
  /\ LET out == mergeSmallChunksOnHeap(heap, call.chunks, call.minSize)
     IN  /\ heap' = out.heap
         /\ result' = out.mergedChunks
  /\ pc' = "done"
  /\ UNCHANGED <<call, loop, effects>>

NextMergeOnHeap == CallMergeOnHeap

SpecMergeOnHeap == InitMergeOnHeap /\ [][NextMergeOnHeap]_vars

\* the objects the returned array points at are the chunks mergeSmallChunks
\* returns for the objects the argument pointed at
HeapAgrees ==
  pc = "done" =>
    Deref(heap, result)
      = mergeSmallChunks(Deref(heap, call.chunks), call.minSize)

\* C28: the call leaves the input array and every input chunk object as
\* they were, and an input chunk that neither absorbed nor was absorbed
\* (its id is in the output with its content) is in the output with the same
\* id, content and metadata.
C28_InputNotMutated ==
  [][(pc = "call" /\ pc' = "done") =>
       /\ call'.chunks = call.chunks
       /\ \A r \in 1..Len(heap) : heap'[r] = heap[r]
       /\ \A k \in 1..Len(call.chunks) :
            \A j \in 1..Len(result') :
              LET before == heap[call.chunks[k]]
                  after  == heap'[result'[j]]
              IN  (after.id = before.id /\ after.content = before.content)
                    => after = before]_vars

\* C28 witness: the first two of three chunks were merged into a new
\* object, the third is in the output as it was, and the first is still the
\* short chunk it was.
C28_Witness ==
  /\ pc = "done"
  /\ call.op = "mergeSmallChunks"
  /\ call.chunks = <<1, 2, 3>>
  /\ result = <<4, 3>>
  /\ heap[1].content = <<"a">>
  /\ heap[4].content = <<"a", " ", "b", "b">>
  /\ heap[4].id = heap[1].id

---------------------------------------------------------------------------
(* The chunks one chunkText or chunkByPages call returns, handed to        *)
(* mergeSmallChunks.                                                       *)

\* the chunking calls followed by a merge with call.minSize
PipelineCalls ==
  [op : {"chunkText"}, text : SeqsUpTo(PageAlphabet, MaxStepLen),
   filename : {"f.txt"}, options : OptionValues,
   minSize : 0..MaxMergeMin \cup {DEFAULT_MIN_SIZE}]
  \cup
  [op : {"chunkByPages"}, pages : PageLists, filename : {"g.pdf"},
   options : {o \in OptionValues : o = [x \in {} |-> 0]}
               \cup {o \in PageStepOptionValues : o.chunkSize >= 1},
   minSize : 0..MaxMergeMin \cup {DEFAULT_MIN_SIZE}]

InitPipeline ==
  /\ call \in PipelineCalls
  /\ result = <<>>
  /\ pc = "call"
  /\ loop = NoLoop
  /\ effects = NoEffects
  /\ heap = NoHeap

\* mergeSmallChunks(chunks, minSize) on the chunks the call returned
MergeReturned ==
  /\ pc = "done"
  /\ call.op \in {"chunkText", "chunkByPages"}
  /\ result' = mergeSmallChunks(result, call.minSize)
  /\ pc' = "merged"
  /\ UNCHANGED <<call, loop, effects, heap>>

NextPipeline == CallChunkText \/ CallChunkByPages \/ MergeReturned

SpecPipeline == InitPipeline /\ [][NextPipeline]_vars

\* C29: after chunkText or chunkByPages and then mergeSmallChunks, every
\* chunk has totalChunks >= 1.  The claim is about every call; it is stated
\* here for the default options, where it already fails.
C29_TotalChunksPositive ==
  (pc = "merged" /\ call.options = [x \in {} |-> 0]) =>
    \A k \in 1..Len(result) : result[k].metadata.totalChunks >= 1

\* the same for chunkText alone, where it holds
TotalChunksPositiveForText ==
  (pc = "merged" /\ call.op = "chunkText") =>
    \A k \in 1..Len(result) : result[k].metadata.totalChunks >= 1

---------------------------------------------------------------------------
(* Further properties of the upload route.                                 *)

\* C30: when the chunks of an uploaded file were sent to Discovery, the
\* answer says success only if every chunk was added; if not it is the 500
\* answer with success false.
C30_IndexingFailureReported ==
  (UploadDone /\ effects.added # <<>>) =>
    IF "success" \in DOMAIN result.body /\ result.body.success
    THEN result.body.details.documentsUploaded = Len(effects.added)
    ELSE /\ result.status = 500
         /\ result.body.error
              = "File was processed but failed to upload to IBM Discovery"

====
